---- MODULE Spec2Model ----
(***************************************************************************)
(* Model of the server actions of the multivendor e-commerce dashboard:    *)
(* upsertStore (src/src/queries/store.ts) and upsertCategory, getCategory, *)
(* deleteCategory (src/unnamed/part_003), run against the Store, Category  *)
(* and User tables of the database.                                        *)
(*                                                                         *)
(* Every action is one whole call of a server action, run to completion    *)
(* (serial execution).  The variable last is the record of the call whose   *)
(* result is being handed to its caller: who called, with what argument,   *)
(* which database operations the persistence collaborator received, what   *)
(* the uniqueness probe returned, and how the call ended.  The next call    *)
(* begins once the caller has taken the result (action Return).            *)
(***************************************************************************)
EXTENDS Integers, Sequences, FiniteSets, TLC

\* Record ids are 1..MaxId (the uuid strings the forms generate).
MaxId == 3

\* At most MaxRecords records are persisted over all tables at one time.
MaxRecords == 2

Ids == 1..MaxId

\* Values of the text fields name, email, phone and url.  One alphabet is
\* shared by all fields, so that a value of one field can equal the value of
\* another field of another record.
Texts == {"a", "b"}

\* What a field of an object reads as when the object does not have it.
Undef == "undefined"

\* A product has at most MaxImages images, and so has the product form.
MaxImages == 2

\* setOpen is invoked at most MaxOpens times.
MaxOpens == 3

\* The largest numeric suffix of a slug that a row of the slug collection
\* carries when a slug is generated.
MaxSuffix == 3

\* The slug collection holds at most MaxRows rows when a slug is generated.
MaxRows == 3

\* The calls that run at the same time.
Procs == {1, 2}

VARIABLES stores, categories, users, last, products, gen, calls,
          dbUser, clerk, modal, productForm, editForm

vars == <<stores, categories, users, last, products, gen, calls,
          dbUser, clerk, modal, productForm, editForm>>

\* The part of the state the serial server actions do not touch: the rows of
\* the collection generateUniqueSlug probes, the calls of generateUniqueSlug
\* under way, and the upsert calls that run concurrently.
others == <<products, gen, calls>>

\* The state of the user sync webhook (the rows of db.user and the private
\* metadata the identity provider keeps per user), of the modal provider, of
\* the product form and of an open category edit form.
rest == <<dbUser, clerk, modal, productForm, editForm>>

\* No private metadata is stored for any user.
NoMetadata == [i \in Ids |-> {}]

\* useState(false), useState({}), useState(null): the modal provider as it
\* is mounted, no setOpen under way.
NoModalStep == [did |-> "none", call |-> 0, fetched |-> {}, setters |-> <<>>]

ModalClosed ==
    [isOpen |-> FALSE, data |-> {}, showingModal |-> {}, pending |-> {},
     opens |-> 0, recent |-> "none", log |-> NoModalStep]

\* No product form is mounted.
NoProductForm == [mode |-> "none", data |-> <<>>, images |-> <<>>,
                  formImages |-> <<>>, did |-> "none", url |-> ""]

NoRest ==
    /\ dbUser = {}
    /\ clerk = NoMetadata
    /\ modal = ModalClosed
    /\ productForm = NoProductForm
    /\ editForm = {}

----------------------------------------------------------------------------
(* The callers: the result of currentUser().                               *)

NoUser == [id |-> 0, role |-> "NONE"]

Seller == [id |-> 1, role |-> "SELLER"]

Admin == [id |-> 2, role |-> "ADMIN"]

Customer == [id |-> 3, role |-> "USER"]

\* A seller who signed in at the identity provider and has no row in the User
\* table.
UnsyncedSeller == [id |-> 4, role |-> "SELLER"]

Callers == {NoUser, Seller, Admin, Customer, UnsyncedSeller}

----------------------------------------------------------------------------
(* Optional values: featured?: boolean, status?: StoreStatus.  An optional *)
(* is the empty set (undefined) or a singleton.                            *)

Coalesce(opt, default) == IF opt = {} THEN default ELSE CHOOSE x \in opt : TRUE

\* What findFirst / findUnique return for a set of matching rows: null (the
\* empty set) when nothing matches, otherwise any one matching row (there is
\* no orderBy).
FindFirst(matches) == IF matches = {} THEN {{}} ELSE {{r} : r \in matches}

----------------------------------------------------------------------------
(* The persistence collaborator (the ORM client db).                       *)

\* DbUpsert with the update branch lost: the create object is always inserted.
DbUpsertInsertOnly(table, id, update, create) == table \cup {create}

\* Merge with the row's own values winning over the update's.
MergeRowWins(row, update) == row

\* update of a row: the fields the update object carries replace the row's,
\* all other fields of the row stay.
Merge(row, update) ==
    [f \in DOMAIN row |-> IF f \in DOMAIN update THEN update[f] ELSE row[f]]

\* DbUpsert that writes the create object over the row it updates.
DbUpsertCreateOverRow(table, id, update, create) ==
    IF \E r \in table : r.id = id
    THEN {IF r.id = id THEN create ELSE r : r \in table}
    ELSE table \cup {create}

\* db.<model>.upsert({where: {id}, update, create}): the row with this id is
\* updated when there is one, otherwise the create object is inserted.
DbUpsert(table, id, update, create) ==
    IF \E r \in table : r.id = id
    THEN {IF r.id = id THEN Merge(r, update) ELSE r : r \in table}
    ELSE table \cup {create}

\* delete with the where-clause lost: every row goes.
DbDeleteAll(table, id) == {}

\* db.<model>.delete({where: {id}}) of a row that exists.

DbDelete(table, id) == {r \in table : r.id # id}

\* findUnique({where: {id}}): the row with the id, if there is one.
FindUnique(table, id) == {r \in table : r.id = id}

HasId(table, id) == \E r \in table : r.id = id

----------------------------------------------------------------------------
(* upsertStore                                                             *)

ErrUnauthenticated == "Unauthenticated."

ErrSellerOnly == "Unauthorized Access: Seller Privileges Required for Entry."

ErrNoStoreData == "Please provide store data."

ErrStoreName == "A store with the same name already exists"

ErrStoreEmail == "A store with the same email already exists"

ErrStorePhone == "A store with the same phone number already exists"

ErrStoreUrl == "A store with the same URL already exists"

\* Errors the ORM client throws itself: an upsert whose where has no id
\* (PrismaClientValidationError) and a connect / delete of a row that does
\* not exist (RecordNotFound).
ErrOrmValidation == "PrismaClientValidationError"

ErrOrmNotFound == "RecordNotFound"

\* StoreWhere without the url condition.
StoreWhereNoUrl(table, store) ==
    {r \in table :
        /\ \/ r.name = store.name
           \/ r.email = store.email
           \/ r.phone = store.phone
        /\ r.id # store.id}

\* StoreWhere with the url condition written against the payload's name.
StoreWhereUrlByName(table, store) ==
    {r \in table :
        /\ \/ r.name = store.name
           \/ r.email = store.email
           \/ r.phone = store.phone
           \/ r.url = store.name
        /\ r.id # store.id}

\* The where clause of the probe: one of the four fields equals the payload's
\* and the id differs.  A payload without the fields ({}) has no value any
\* row's field equals, so its probe matches no row.
StoreWhere(table, store) ==
    {r \in table :
        /\ \/ r.name = store.name
           \/ r.email = store.email
           \/ r.phone = store.phone
           \/ r.url = store.url
        /\ r.id # store.id}

\* StoreConflictMessage with the email message copied into the phone branch.
StoreConflictMessagePhoneAsEmail(existingStore, store) ==
    IF existingStore.name = store.name THEN ErrStoreName
    ELSE IF existingStore.email = store.email THEN ErrStoreEmail
    ELSE IF existingStore.phone = store.phone THEN ErrStoreEmail
    ELSE IF existingStore.url = store.url THEN ErrStoreUrl
    ELSE ""

StoreConflictMessage(existingStore, store) ==
    IF existingStore.name = store.name THEN ErrStoreName
    ELSE IF existingStore.email = store.email THEN ErrStoreEmail
    ELSE IF existingStore.phone = store.phone THEN ErrStorePhone
    ELSE IF existingStore.url = store.url THEN ErrStoreUrl
    ELSE ""

StoreData(store) ==
    [name |-> store.name,
     description |-> store.description,
     email |-> store.email,
     phone |-> store.phone,
     url |-> store.url,
     logo |-> store.logo,
     cover |-> store.cover,
     featured |-> Coalesce(store.featured, FALSE),
     status |-> Coalesce(store.status, "PENDING")]

StoreCreate(store, user) ==
    [id |-> store.id, userId |-> user.id] @@ StoreData(store)

\* How a call ends: the tables after it, the database operations it issued in
\* order, what the probe returned, and the error thrown or the value returned.
Outcome(st, cat, log, found, threw, err, ret) ==
    [stores |-> st, categories |-> cat, log |-> log, found |-> found,
     threw |-> threw, err |-> err, ret |-> ret]

\* catch (error) { console.log(error); throw error; }
Rethrow(error) == error

\* upsertStore with the presence check moved before the authentication check.
upsertStorePresenceFirst(user, store, found) ==
    IF store.kind = "missing"
    THEN Outcome(stores, categories, <<>>, {}, TRUE, Rethrow(ErrNoStoreData), {})
    ELSE IF user = NoUser
    THEN Outcome(stores, categories, <<>>, {}, TRUE, Rethrow(ErrUnauthenticated), {})
    ELSE IF user.role # "SELLER"
    THEN Outcome(stores, categories, <<>>, {}, TRUE, Rethrow(ErrSellerOnly), {})
    ELSE IF found # {}
    THEN LET existingStore == CHOOSE r \in found : TRUE
         IN  Outcome(stores, categories, <<"store.findFirst">>, found, TRUE,
                     Rethrow(StoreConflictMessage(existingStore, store)), {})
    ELSE IF store.id \notin Ids
    THEN Outcome(stores, categories, <<"store.findFirst", "store.upsert">>, found,
                 TRUE, Rethrow(ErrOrmValidation), {})
    ELSE IF ~HasId(stores, store.id) /\ user.id \notin users
    THEN Outcome(stores, categories, <<"store.findFirst", "store.upsert">>, found,
                 TRUE, Rethrow(ErrOrmNotFound), {})
    ELSE LET after == DbUpsert(stores, store.id, StoreData(store),
                               StoreCreate(store, user))
         IN  Outcome(after, categories, <<"store.findFirst", "store.upsert">>, found,
                     FALSE, "", {r \in after : r.id = store.id})

\* One call of upsertStore by user with payload store; found is what
\* db.store.findFirst returns when the call gets to it.
upsertStore(user, store, found) ==
    IF user = NoUser
    THEN Outcome(stores, categories, <<>>, {}, TRUE, Rethrow(ErrUnauthenticated), {})
    ELSE IF user.role # "SELLER"
    THEN Outcome(stores, categories, <<>>, {}, TRUE, Rethrow(ErrSellerOnly), {})
    ELSE IF store.kind = "missing"
    THEN Outcome(stores, categories, <<>>, {}, TRUE, Rethrow(ErrNoStoreData), {})
    ELSE IF found # {}
    THEN LET existingStore == CHOOSE r \in found : TRUE
         IN  Outcome(stores, categories, <<"store.findFirst">>, found, TRUE,
                     Rethrow(StoreConflictMessage(existingStore, store)), {})
    ELSE IF store.id \notin Ids
    THEN Outcome(stores, categories, <<"store.findFirst", "store.upsert">>, found,
                 TRUE, Rethrow(ErrOrmValidation), {})
    ELSE IF ~HasId(stores, store.id) /\ user.id \notin users
    THEN Outcome(stores, categories, <<"store.findFirst", "store.upsert">>, found,
                 TRUE, Rethrow(ErrOrmNotFound), {})
    ELSE LET after == DbUpsert(stores, store.id, StoreData(store),
                               StoreCreate(store, user))
         IN  Outcome(after, categories, <<"store.findFirst", "store.upsert">>, found,
                     FALSE, "", {r \in after : r.id = store.id})

\* The payloads of upsertStore: no payload, the empty object, and objects of
\* type UpsertStoreInput.
MissingStore ==
    [kind |-> "missing", id |-> 0, name |-> Undef, description |-> Undef,
     email |-> Undef, phone |-> Undef, url |-> Undef, logo |-> Undef,
     cover |-> Undef, featured |-> {}, status |-> {}]

EmptyStore == [MissingStore EXCEPT !.kind = "empty"]

StoreInputs ==
    {[kind |-> "full", id |-> i, name |-> n, description |-> "d", email |-> e,
      phone |-> p, url |-> u, logo |-> "l", cover |-> "c",
      featured |-> {}, status |-> {}] :
        i \in Ids, n \in Texts, e \in Texts, p \in Texts, u \in Texts}

StorePayloads == {MissingStore, EmptyStore} \cup StoreInputs

Total(st, cat) == Cardinality(st) + Cardinality(cat)

\* The record of a call.  A call that threw before it issued any database
\* operation has read nothing of its argument but whether it is there, and
\* the record keeps that much of it.
Seen(arg, blank, out) ==
    IF out.log = <<>> THEN [blank EXCEPT !.kind = arg.kind] ELSE arg

\* prior is the row that had the argument's id when the call began (none when
\* there was no such row), of table, the table the call is about.
Call(op, user, arg, blank, table, out) ==
    [op |-> op, user |-> user, arg |-> Seen(arg, blank, out),
     prior |-> {r \in table : r.id = Seen(arg, blank, out).id},
     found |-> out.found, log |-> out.log, threw |-> out.threw,
     err |-> out.err, ret |-> out.ret]

\* No call is under way.
Idle ==
    [op |-> "none", user |-> NoUser, arg |-> [kind |-> "none"], prior |-> {},
     found |-> {}, log |-> <<>>, threw |-> FALSE, err |-> "", ret |-> {}]

\* One call of upsertStore, by one of callers with one of payloads.
UpsertStoreBy(callers, payloads) ==
    /\ last = Idle
    /\ \E user \in callers, store \in payloads :
         \E found \in FindFirst(StoreWhere(stores, store)) :
             \E out \in {upsertStore(user, store, found)} :
                 /\ Total(out.stores, out.categories) <= MaxRecords
                 /\ stores' = out.stores
                 /\ categories' = out.categories
                 /\ users' = users
                 /\ last' = Call("upsertStore", user, store, MissingStore,
                                 stores, out)
                 /\ UNCHANGED others
                 /\ UNCHANGED rest

UpsertStore == UpsertStoreBy(Callers, StorePayloads)

----------------------------------------------------------------------------
(* upsertCategory, deleteCategory                                          *)

ErrAdminOnly == "Unauthorized Access: Admin Privileges Required for Entry."

ErrNoCategoryData == "Please provide category data."

ErrCategoryName == "A category with the same name already exists"

ErrCategoryUrl == "A category with the same URL already exists"

ErrNoCategoryId == "Please provide a category ID."

\* CategoryWhere without the exclusion of the row being written.
CategoryWhereNoSelfExclusion(table, category) ==
    {r \in table :
        \/ r.name = category.name
        \/ r.url = category.url}

CategoryWhere(table, category) ==
    {r \in table :
        /\ \/ r.name = category.name
           \/ r.url = category.url
        /\ r.id # category.id}

\* CategoryConflictMessage with the url tested before the name.
CategoryConflictMessageUrlFirst(existingCategory, category) ==
    IF existingCategory.url = category.url THEN ErrCategoryUrl
    ELSE IF existingCategory.name = category.name THEN ErrCategoryName
    ELSE ""

CategoryConflictMessage(existingCategory, category) ==
    IF existingCategory.name = category.name THEN ErrCategoryName
    ELSE IF existingCategory.url = category.url THEN ErrCategoryUrl
    ELSE ""

\* The row a Category object is written as: the whole object is both the
\* update and the create argument.
CategoryRow(category) ==
    [id |-> category.id, name |-> category.name, image |-> category.image,
     url |-> category.url, featured |-> category.featured,
     createdAt |-> category.createdAt, updatedAt |-> category.updatedAt]

\* upsertCategory with the write issued before the probe's result is looked at.
upsertCategoryWriteFirst(user, category, found) ==
    IF user = NoUser
    THEN Outcome(stores, categories, <<>>, {}, TRUE, Rethrow(ErrUnauthenticated), {})
    ELSE IF user.role # "ADMIN"
    THEN Outcome(stores, categories, <<>>, {}, TRUE, Rethrow(ErrAdminOnly), {})
    ELSE IF category.kind = "missing"
    THEN Outcome(stores, categories, <<>>, {}, TRUE, Rethrow(ErrNoCategoryData), {})
    ELSE IF category.id \notin Ids
    THEN Outcome(stores, categories, <<"category.findFirst", "category.upsert">>,
                 found, TRUE, Rethrow(ErrOrmValidation), {})
    ELSE LET after == DbUpsert(categories, category.id, CategoryRow(category),
                               CategoryRow(category))
         IN  IF found # {}
             THEN LET existingCategory == CHOOSE r \in found : TRUE
                  IN  Outcome(stores, after,
                              <<"category.findFirst", "category.upsert">>, found,
                              TRUE,
                              Rethrow(CategoryConflictMessage(existingCategory,
                                                              category)), {})
             ELSE Outcome(stores, after,
                          <<"category.findFirst", "category.upsert">>, found,
                          FALSE, "", {r \in after : r.id = category.id})

upsertCategory(user, category, found) ==
    IF user = NoUser
    THEN Outcome(stores, categories, <<>>, {}, TRUE, Rethrow(ErrUnauthenticated), {})
    ELSE IF user.role # "ADMIN"
    THEN Outcome(stores, categories, <<>>, {}, TRUE, Rethrow(ErrAdminOnly), {})
    ELSE IF category.kind = "missing"
    THEN Outcome(stores, categories, <<>>, {}, TRUE, Rethrow(ErrNoCategoryData), {})
    ELSE IF found # {}
    THEN LET existingCategory == CHOOSE r \in found : TRUE
         IN  Outcome(stores, categories, <<"category.findFirst">>, found, TRUE,
                     Rethrow(CategoryConflictMessage(existingCategory, category)), {})
    ELSE IF category.id \notin Ids
    THEN Outcome(stores, categories, <<"category.findFirst", "category.upsert">>,
                 found, TRUE, Rethrow(ErrOrmValidation), {})
    ELSE LET after == DbUpsert(categories, category.id, CategoryRow(category),
                               CategoryRow(category))
         IN  Outcome(stores, after, <<"category.findFirst", "category.upsert">>,
                     found, FALSE, "", {r \in after : r.id = category.id})

MissingCategory ==
    [kind |-> "missing", id |-> 0, name |-> Undef, image |-> Undef,
     url |-> Undef, featured |-> FALSE, createdAt |-> 0, updatedAt |-> 0]

EmptyCategory == [MissingCategory EXCEPT !.kind = "empty"]

CategoryInputs ==
    {[kind |-> "full", id |-> i, name |-> n, image |-> "i", url |-> u,
      featured |-> FALSE, createdAt |-> 0, updatedAt |-> 0] :
        i \in Ids, n \in Texts, u \in Texts}

CategoryPayloads == {MissingCategory, EmptyCategory} \cup CategoryInputs

\* One call of upsertCategory, by one of callers with one of payloads.
UpsertCategoryBy(callers, payloads) ==
    /\ last = Idle
    /\ \E user \in callers, category \in payloads :
         \E found \in FindFirst(CategoryWhere(categories, category)) :
             \E out \in {upsertCategory(user, category, found)} :
                 /\ Total(out.stores, out.categories) <= MaxRecords
                 /\ stores' = out.stores
                 /\ categories' = out.categories
                 /\ users' = users
                 /\ last' = Call("upsertCategory", user, category,
                                 MissingCategory, categories, out)
                 /\ UNCHANGED others
                 /\ UNCHANGED rest

UpsertCategory == UpsertCategoryBy(Callers, CategoryPayloads)

\* deleteCategory without the role check.
deleteCategoryNoRoleCheck(user, categoryId) ==
    IF user = NoUser
    THEN Outcome(stores, categories, <<>>, {}, TRUE, ErrUnauthenticated, {})
    ELSE IF categoryId = 0
    THEN Outcome(stores, categories, <<>>, {}, TRUE, ErrNoCategoryId, {})
    ELSE IF ~HasId(categories, categoryId)
    THEN Outcome(stores, categories, <<"category.delete">>, {}, TRUE,
                 ErrOrmNotFound, {})
    ELSE Outcome(stores, DbDelete(categories, categoryId), <<"category.delete">>,
                 {}, FALSE, "", {r \in categories : r.id = categoryId})

\* One call of deleteCategory; categoryId 0 stands for the empty string.
\* There is no try / catch: what is thrown leaves the function as it is.
deleteCategory(user, categoryId) ==
    IF user = NoUser
    THEN Outcome(stores, categories, <<>>, {}, TRUE, ErrUnauthenticated, {})
    ELSE IF user.role # "ADMIN"
    THEN Outcome(stores, categories, <<>>, {}, TRUE, ErrAdminOnly, {})
    ELSE IF categoryId = 0
    THEN Outcome(stores, categories, <<>>, {}, TRUE, ErrNoCategoryId, {})
    ELSE IF ~HasId(categories, categoryId)
    THEN Outcome(stores, categories, <<"category.delete">>, {}, TRUE,
                 ErrOrmNotFound, {})
    ELSE Outcome(stores, DbDelete(categories, categoryId), <<"category.delete">>,
                 {}, FALSE, "", {r \in categories : r.id = categoryId})

\* One call of getCategory; categoryId 0 stands for the empty string.
getCategory(categoryId) ==
    IF categoryId = 0
    THEN [threw |-> TRUE, err |-> ErrNoCategoryId, ret |-> {}]
    ELSE [threw |-> FALSE, err |-> "", ret |-> FindUnique(categories, categoryId)]

CategoryIdArg(categoryId) ==
    [kind |-> IF categoryId = 0 THEN "missing" ELSE "full", id |-> categoryId]

\* One call of deleteCategory, by one of callers.
DeleteCategoryBy(callers) ==
    /\ last = Idle
    /\ \E user \in callers, categoryId \in {0} \cup Ids :
         \E out \in {deleteCategory(user, categoryId)} :
             /\ stores' = out.stores
             /\ categories' = out.categories
             /\ users' = users
             /\ last' = Call("deleteCategory", user, CategoryIdArg(categoryId),
                             CategoryIdArg(0), categories, out)
             /\ UNCHANGED others
             /\ UNCHANGED rest

DeleteCategory == DeleteCategoryBy(Callers)

\* The caller takes the value returned or the error thrown (the forms show a
\* toast); the next call can begin.
Return ==
    /\ last # Idle
    /\ last' = Idle
    /\ UNCHANGED <<stores, categories, users>>
    /\ UNCHANGED others
    /\ UNCHANGED rest

\* No call of generateUniqueSlug is under way.
GenIdle ==
    [pc |-> "idle", baseSlug |-> "", separator |-> "", slug |-> "",
     suffix |-> 0, probes |-> <<>>]

\* No concurrent upsert call is under way.
RaceIdle ==
    [pc |-> "idle", op |-> "none", user |-> NoUser, arg |-> [kind |-> "none"],
     found |-> {}, log |-> <<>>, threw |-> FALSE, err |-> "", ret |-> {}]

NoOthers ==
    /\ products = {}
    /\ gen = [p \in Procs |-> GenIdle]
    /\ calls = [p \in Procs |-> RaceIdle]
    /\ NoRest

Init ==
    /\ stores = {}
    /\ categories = {}
    /\ users = {Seller.id, Admin.id, Customer.id}
    /\ last = Idle
    /\ NoOthers

Next ==
    \/ UpsertStore
    \/ UpsertCategory
    \/ DeleteCategory
    \/ Return

Spec == Init /\ [][Next]_vars

----------------------------------------------------------------------------
(* Updates with payloads that differ in the fields that are not unique.    *)
(* The four (two) unique fields of a payload carry one value.              *)

ReplaceStoreInputs ==
    {[kind |-> "full", id |-> i, name |-> t, description |-> d, email |-> t,
      phone |-> t, url |-> t, logo |-> "l", cover |-> "c",
      featured |-> f, status |-> s] :
        i \in Ids, t \in Texts, d \in {"d", "e"}, f \in {{}, {TRUE}},
        s \in {{}, {"ACTIVE"}}}

\* createdAt and updatedAt are both the time of the submission (new Date()).
ReplaceCategoryInputs ==
    {[kind |-> "full", id |-> i, name |-> t, image |-> "i", url |-> t,
      featured |-> FALSE, createdAt |-> now, updatedAt |-> now] :
        i \in Ids, t \in Texts, now \in {0, 1}}

UpsertStoreReplace == UpsertStoreBy({Seller}, ReplaceStoreInputs)

UpsertCategoryReplace == UpsertCategoryBy({Admin}, ReplaceCategoryInputs)

NextReplace ==
    \/ UpsertStoreReplace
    \/ UpsertCategoryReplace
    \/ Return

SpecReplace == Init /\ [][NextReplace]_vars

----------------------------------------------------------------------------
(* Stores of two sellers.                                                  *)

OtherSeller == [id |-> 5, role |-> "SELLER"]

OwnerStoreInputs ==
    {[kind |-> "full", id |-> i, name |-> t, description |-> d, email |-> t,
      phone |-> t, url |-> t, logo |-> "l", cover |-> "c",
      featured |-> {}, status |-> {}] :
        i \in Ids, t \in Texts, d \in {"d", "e"}}

UpsertStoreOwner ==
    UpsertStoreBy({NoUser, Seller, OtherSeller, Admin}, OwnerStoreInputs)

InitOwner ==
    /\ stores = {}
    /\ categories = {}
    /\ users = {Seller.id, Admin.id, Customer.id, OtherSeller.id}
    /\ last = Idle
    /\ NoOthers

NextOwner ==
    \/ UpsertStoreOwner
    \/ Return

SpecOwner == InitOwner /\ [][NextOwner]_vars


----------------------------------------------------------------------------
(* generateUniqueSlug (src/unnamed/part_004)                               *)

\* let slug = baseSlug
FirstCandidateSuffixed(baseSlug) == baseSlug \o "-" \o ToString(0)

FirstCandidate(baseSlug) == baseSlug

\* db[model].findFirst({where: {[field]: slug}}): the rows whose slug field
\* is exactly the candidate.
SlugMatches(rows, field, slug) == {r \in rows : r[field] = slug}

\* slug = `${slug}${separator}${suffix}`
NextCandidate(slug, separator, suffix) == slug \o separator \o ToString(suffix)

\* return slug, with the base slug returned instead.
SlugResultBase(g) == g.baseSlug

\* return slug
SlugResult(g) == g.slug

\* One pass of the loop in which a collision changes nothing: the same
\* candidate is probed again.
SlugIterationStuck(g, existing) ==
    IF existing = {}
    THEN [g EXCEPT !.pc = "returned", !.probes = Append(@, g.slug)]
    ELSE g

\* One pass of the while (true) loop, existing being what the probe of the
\* candidate g.slug returned: break when there is no such row, otherwise
\* append the separator and the suffix to the candidate and count on.
SlugIteration(g, existing) ==
    IF existing = {}
    THEN [g EXCEPT !.pc = "returned", !.probes = Append(@, g.slug)]
    ELSE [g EXCEPT !.slug = NextCandidate(g.slug, g.separator, g.suffix),
                   !.suffix = @ + 1,
                   !.probes = Append(@, g.slug)]

\* The probe with the free candidate reserved by a row written at once.
RowsAfterProbeReserve(rows, g, existing) ==
    IF existing = {} THEN rows \cup {[id |-> 0, slug |-> g.slug]} ELSE rows

\* The collection after a probe: the probe is a read.
RowsAfterProbe(rows, g, existing) == rows

Separators == {"-", "_"}

\* The base slugs given: a plain one, and one that ends in a suffix itself.
Bases == {"widget", "widget-1"}

\* generateUniqueSlug(baseSlug, model, "slug", separator) is called.
SlugStart(p) ==
    /\ gen[p].pc = "idle"
    /\ \E baseSlug \in Bases, separator \in Separators :
         gen' = [gen EXCEPT ![p] =
                   [pc |-> "loop", baseSlug |-> baseSlug,
                    separator |-> separator,
                    slug |-> FirstCandidate(baseSlug), suffix |-> 1,
                    probes |-> <<>>]]
    /\ UNCHANGED <<stores, categories, users, last, products, calls>>
    /\ UNCHANGED rest

\* The probe of one pass of the loop and what follows it up to the next
\* await.
SlugProbe(p) ==
    /\ gen[p].pc = "loop"
    /\ \E existing \in FindFirst(SlugMatches(products, "slug", gen[p].slug)) :
         /\ gen' = [gen EXCEPT ![p] = SlugIteration(gen[p], existing)]
         /\ products' = RowsAfterProbe(products, gen[p], existing)
    /\ UNCHANGED <<stores, categories, users, last, calls>>
    /\ UNCHANGED rest

\* The slugs a collection can hold: the base slug, an unrelated slug, and for
\* each separator the base slug with one suffix 1..MaxSuffix and with the
\* suffixes 1-2, 1-2-3, ... up to MaxSuffix.
RECURSIVE Chained(_, _)
Chained(separator, k) ==
    IF k = 0 THEN "widget"
    ELSE Chained(separator, k - 1) \o separator \o ToString(k)

SlugsOf(separator) ==
    [k \in 1..MaxSuffix |-> "widget" \o separator \o ToString(k)]
        \o [k \in 1..(MaxSuffix - 1) |-> Chained(separator, k + 1)]

SlugUniverse == <<"widget", "gadget">> \o SlugsOf("-") \o SlugsOf("_")

InitSlug ==
    /\ stores = {}
    /\ categories = {}
    /\ users = {Seller.id, Admin.id, Customer.id}
    /\ last = Idle
    /\ \E I \in SUBSET (1..Len(SlugUniverse)) :
         /\ Cardinality(I) <= MaxRows
         /\ products = {[id |-> i, slug |-> SlugUniverse[i]] : i \in I}
    /\ gen = [p \in Procs |-> GenIdle]
    /\ calls = [p \in Procs |-> RaceIdle]
    /\ NoRest

\* One call of generateUniqueSlug on a collection that is not modified.
NextSlug ==
    \/ SlugStart(1)
    \/ SlugProbe(1)

SpecSlug == InitSlug /\ [][NextSlug]_vars

\* The runtime resumes the call when the promise of its probe is settled.
SpecSlugFair == SpecSlug /\ WF_vars(NextSlug)

----------------------------------------------------------------------------
(* Upserts that run at the same time.  Each await of a server action is a  *)
(* point where another call can run: the probe and the write of one call   *)
(* are two steps.                                                          *)

RaceWhere(op, arg) ==
    IF op = "upsertStore" THEN StoreWhere(stores, arg)
    ELSE CategoryWhere(categories, arg)

RaceOutcome(op, user, arg, found) ==
    IF op = "upsertStore" THEN upsertStore(user, arg, found)
    ELSE upsertCategory(user, arg, found)

\* Call p is for the record with id p.
RaceInputs(p) ==
    {<<"upsertStore", store>> : store \in {i \in StoreInputs : i.id = p}}
        \cup {<<"upsertCategory", category>> :
                category \in {i \in CategoryInputs : i.id = p}}

\* A call of upsertStore or upsertCategory begins.
RaceStart(p) ==
    /\ calls[p].pc = "idle"
    /\ \E user \in {Seller, Admin}, in \in RaceInputs(p) :
         calls' = [calls EXCEPT ![p] =
                     [RaceIdle EXCEPT !.pc = "called", !.op = in[1],
                                      !.user = user, !.arg = in[2]]]
    /\ UNCHANGED <<stores, categories, users, last, products, gen>>
    /\ UNCHANGED rest

\* The call runs up to the await of its write: the checks of the caller and
\* of the payload, the probe, and the conflict check on what the probe
\* returned.
RaceProbe(p) ==
    /\ calls[p].pc = "called"
    /\ \E found \in FindFirst(RaceWhere(calls[p].op, calls[p].arg)) :
         \E out \in {RaceOutcome(calls[p].op, calls[p].user, calls[p].arg,
                                 found)} :
             calls' = [calls EXCEPT ![p] =
                         IF Len(out.log) < 2
                         THEN [@ EXCEPT !.pc = "done", !.found = out.found,
                                        !.log = out.log, !.threw = out.threw,
                                        !.err = out.err, !.ret = out.ret]
                         ELSE [@ EXCEPT !.pc = "probed", !.found = out.found,
                                        !.log = out.log]]
    /\ UNCHANGED <<stores, categories, users, last, products, gen>>
    /\ UNCHANGED rest

\* The write with the probe made once more in the transaction of the write.
RaceWriteInTransaction(p) ==
    /\ calls[p].pc = "probed"
    /\ \E found \in FindFirst(RaceWhere(calls[p].op, calls[p].arg)) :
         \E out \in {RaceOutcome(calls[p].op, calls[p].user, calls[p].arg,
                                 found)} :
             /\ stores' = out.stores
             /\ categories' = out.categories
             /\ calls' = [calls EXCEPT ![p] =
                            [@ EXCEPT !.pc = "done", !.threw = out.threw,
                                      !.err = out.err, !.ret = out.ret]]
    /\ UNCHANGED <<users, last, products, gen>>
    /\ UNCHANGED rest

\* The write of the call, on the table as it is now, decided by what the
\* probe returned then.
RaceWrite(p) ==
    /\ calls[p].pc = "probed"
    /\ \E out \in {RaceOutcome(calls[p].op, calls[p].user, calls[p].arg,
                               calls[p].found)} :
         /\ stores' = out.stores
         /\ categories' = out.categories
         /\ calls' = [calls EXCEPT ![p] =
                        [@ EXCEPT !.pc = "done", !.threw = out.threw,
                                  !.err = out.err, !.ret = out.ret]]
    /\ UNCHANGED <<users, last, products, gen>>
    /\ UNCHANGED rest

NextRace ==
    \E p \in Procs :
        \/ RaceStart(p)
        \/ RaceProbe(p)
        \/ RaceWrite(p)

SpecRace == Init /\ [][NextRace]_vars

----------------------------------------------------------------------------
(* Slug generations that run at the same time, each followed by its caller *)
(* writing a row with the slug it was given.                               *)

\* The id of the row the caller of call p writes.
NewId(p) == Len(SlugUniverse) + p

\* The caller of call p persists a row with the slug returned to it.
SlugPersist(p) ==
    /\ gen[p].pc = "returned"
    /\ products' = products \cup {[id |-> NewId(p), slug |-> SlugResult(gen[p])]}
    /\ gen' = [gen EXCEPT ![p].pc = "saved"]
    /\ UNCHANGED <<stores, categories, users, last, calls>>
    /\ UNCHANGED rest

\* The collection holds the base slug and the k candidates the loop makes
\* after it, for some k, or nothing.
InitSlugRace ==
    /\ stores = {}
    /\ categories = {}
    /\ users = {Seller.id, Admin.id, Customer.id}
    /\ last = Idle
    /\ \E n \in 0..MaxSuffix :
         products = {[id |-> k + 1, slug |-> Chained("-", k)] : k \in 0..(n - 1)}
    /\ gen = [p \in Procs |-> GenIdle]
    /\ calls = [p \in Procs |-> RaceIdle]
    /\ NoRest

NextSlugRace ==
    \E p \in Procs :
        \/ SlugStart(p)
        \/ SlugProbe(p)
        \/ SlugPersist(p)

SpecSlugRace == InitSlugRace /\ [][NextSlugRace]_vars

----------------------------------------------------------------------------
(* A category edit form that stays open while the categories change.       *)

\* The edit form is opened for a category: CategoryDetails gets the row as
\* its data prop.
OpenEdit ==
    /\ last = Idle
    /\ editForm = {}
    /\ \E data \in categories :
         editForm' = {[data |-> data, isSubmitting |-> FALSE]}
    /\ UNCHANGED <<stores, categories, users, last>>
    /\ UNCHANGED others
    /\ UNCHANGED <<dbUser, clerk, modal, productForm>>

\* handleSubmit with a new id generated for every submission.
EditPayloadsNewId ==
    {[kind |-> "full", id |-> i, name |-> n, image |-> f.data.image,
      url |-> u, featured |-> f.data.featured, createdAt |-> 0,
      updatedAt |-> 0] :
        f \in editForm, n \in Texts, u \in Texts,
        i \in {j \in Ids : ~HasId(categories, j) /\ \A g \in editForm : g.data.id # j}}

\* What handleSubmit passes to upsertCategory: the id of the data prop and
\* the values of the form's fields, edited or not.
EditPayloads ==
    {[kind |-> "full", id |-> f.data.id, name |-> n, image |-> f.data.image,
      url |-> u, featured |-> f.data.featured, createdAt |-> 0,
      updatedAt |-> 0] :
        f \in editForm, n \in Texts, u \in Texts}

\* handleSubmit of the open edit form, by the admin who has it open.
SubmitEdit ==
    /\ last = Idle
    /\ \E f \in editForm : ~f.isSubmitting
    /\ \E category \in EditPayloads :
         \E found \in FindFirst(CategoryWhere(categories, category)) :
             \E out \in {upsertCategory(Admin, category, found)} :
                 /\ Total(out.stores, out.categories) <= MaxRecords
                 /\ stores' = out.stores
                 /\ categories' = out.categories
                 /\ users' = users
                 /\ last' = Call("upsertCategory", Admin, category,
                                 MissingCategory, categories, out)
    /\ editForm' = {[f EXCEPT !.isSubmitting = TRUE] : f \in editForm}
    /\ UNCHANGED others
    /\ UNCHANGED <<dbUser, clerk, modal, productForm>>

\* The submission is over: the toast is shown.
ReturnEdit ==
    /\ last # Idle
    /\ \E f \in editForm : f.isSubmitting
    /\ last' = Idle
    /\ editForm' = {[f EXCEPT !.isSubmitting = FALSE] : f \in editForm}
    /\ UNCHANGED <<stores, categories, users>>
    /\ UNCHANGED others
    /\ UNCHANGED <<dbUser, clerk, modal, productForm>>

\* The form is closed.
CloseEdit ==
    /\ last = Idle
    /\ editForm # {}
    /\ editForm' = {}
    /\ UNCHANGED <<stores, categories, users, last>>
    /\ UNCHANGED others
    /\ UNCHANGED <<dbUser, clerk, modal, productForm>>

NextStale ==
    \/ UpsertCategoryBy({Admin}, CategoryInputs)
    \/ DeleteCategoryBy({Admin})
    \/ OpenEdit
    \/ SubmitEdit
    \/ ReturnEdit
    \/ CloseEdit
    \/ (\A f \in editForm : ~f.isSubmitting) /\ Return

SpecStale == Init /\ [][NextStale]_vars

----------------------------------------------------------------------------
(* The user sync webhook: POST of                                          *)
(* src/app/dashboard/admin/subCategories/new/page.tsx.                     *)

Roles == {"USER", "SELLER", "ADMIN"}

\* `${firstName} ${lastName}`.trim() || data.username || "User", the names
\* and the username being "" when the event has none.
FullName(first_name, last_name, username) ==
    IF first_name # "" /\ last_name # "" THEN first_name \o " " \o last_name
    ELSE IF first_name # "" THEN first_name
    ELSE IF last_name # "" THEN last_name
    ELSE IF username # "" THEN username
    ELSE "User"

\* !email with only undefined taken for a missing address.
EmailMissingUndefinedOnly(email) == email = {}

\* !email: there is no first address, or it is the empty string.
EmailMissing(email) == email = {} \/ email = {""}

Reply(rows, metadata, status, log) ==
    [dbUser |-> rows, clerk |-> metadata, status |-> status, log |-> log]

\* The user.created / user.updated branch with no try / catch around the
\* metadata update: its error reaches the outer catch.
SyncUserNoInnerCatch(evt, clerkFails) ==
    LET fullName == FullName(evt.first_name, evt.last_name, evt.username)
        picture == evt.image_url
    IN  IF EmailMissing(evt.email)
        THEN Reply(dbUser, clerk, 400, <<>>)
        ELSE LET email == CHOOSE e \in evt.email : TRUE
                 match == {r \in dbUser : r.email = email}
             IN  IF match = {} /\ HasId(dbUser, evt.id)
                 THEN Reply(dbUser, clerk, 400, <<"user.upsert">>)
                 ELSE LET row ==
                            IF match # {}
                            THEN Merge(CHOOSE r \in match : TRUE,
                                       [name |-> fullName, picture |-> picture])
                            ELSE [id |-> evt.id, name |-> fullName,
                                  email |-> email, picture |-> picture,
                                  role |-> "USER"]
                          rows == {r \in dbUser : r.email # email} \cup {row}
                      IN  IF clerkFails
                          THEN Reply(rows, clerk, 400,
                                     <<"user.upsert", "updateUserMetadata">>)
                          ELSE Reply(rows,
                                     [clerk EXCEPT ![evt.id] = {row.role}], 200,
                                     <<"user.upsert", "updateUserMetadata">>)

\* The user.created / user.updated branch: the email check, db.user.upsert
\* by email (the insert fails when the id is taken), and the metadata update
\* whose failure is caught and logged.
SyncUser(evt, clerkFails) ==
    LET fullName == FullName(evt.first_name, evt.last_name, evt.username)
        picture == evt.image_url
    IN  IF EmailMissing(evt.email)
        THEN Reply(dbUser, clerk, 400, <<>>)
        ELSE LET email == CHOOSE e \in evt.email : TRUE
                 match == {r \in dbUser : r.email = email}
             IN  IF match = {} /\ HasId(dbUser, evt.id)
                 THEN Reply(dbUser, clerk, 400, <<"user.upsert">>)
                 ELSE LET row ==
                            IF match # {}
                            THEN Merge(CHOOSE r \in match : TRUE,
                                       [name |-> fullName, picture |-> picture])
                            ELSE [id |-> evt.id, name |-> fullName,
                                  email |-> email, picture |-> picture,
                                  role |-> "USER"]
                          rows == {r \in dbUser : r.email # email} \cup {row}
                      IN  IF clerkFails
                          THEN Reply(rows, clerk, 200,
                                     <<"user.upsert", "updateUserMetadata">>)
                          ELSE Reply(rows,
                                     [clerk EXCEPT ![evt.id] = {row.role}], 200,
                                     <<"user.upsert", "updateUserMetadata">>)

\* The user.deleted branch: db.user.delete by id throws when no row has the
\* id, and the catch answers 500.
DeleteUser(evt) ==
    IF HasId(dbUser, evt.id)
    THEN Reply(DbDelete(dbUser, evt.id), clerk, 200, <<"user.delete">>)
    ELSE Reply(dbUser, clerk, 500, <<"user.delete">>)

\* POST: verifyWebhook throws for a request that is not verified and the
\* outer catch answers 400; an event of another type is answered 200.
POST(evt, verified, clerkFails) ==
    IF ~verified THEN Reply(dbUser, clerk, 400, <<>>)
    ELSE IF evt.type \in {"user.created", "user.updated"}
    THEN SyncUser(evt, clerkFails)
    ELSE IF evt.type = "user.deleted" THEN DeleteUser(evt)
    ELSE Reply(dbUser, clerk, 200, <<>>)

\* The events: user events with or without names, username, picture and
\* first email address, and an event of another type.
Events ==
    {[type |-> t, id |-> i, first_name |-> f, last_name |-> "",
      username |-> u, email |-> e, image_url |-> img] :
        t \in {"user.created", "user.updated"}, i \in Ids,
        f \in {"", "Al"}, u \in {"", "ab"},
        e \in {{}, {""}} \cup {{x} : x \in Texts}, img \in {"", "p"}}
        \cup {[type |-> t, id |-> i, first_name |-> "", last_name |-> "",
               username |-> "", email |-> {}, image_url |-> ""] :
                t \in {"user.deleted", "session.created"}, i \in Ids}

\* One request to the webhook is handled.
Webhook ==
    /\ last = Idle
    /\ \E evt \in Events, verified \in BOOLEAN, clerkFails \in BOOLEAN :
         \E out \in {POST(evt, verified, clerkFails)} :
             /\ dbUser' = out.dbUser
             /\ clerk' = out.clerk
             /\ users' = {r.id : r \in out.dbUser}
             /\ last' = [op |-> "POST", evt |-> evt, verified |-> verified,
                         clerkFails |-> clerkFails, status |-> out.status,
                         log |-> out.log]
    /\ UNCHANGED <<stores, categories>>
    /\ UNCHANGED others
    /\ UNCHANGED <<modal, productForm, editForm>>

\* The rows a user table can hold before a request: users registered earlier
\* whose role was set since.
UserRows ==
    {[id |-> i, name |-> "n", email |-> e, picture |-> "q", role |-> r] :
        i \in Ids, e \in Texts, r \in Roles}

\* Any user table in which no two rows share an id or an email.
InitHook ==
    /\ stores = {}
    /\ categories = {}
    /\ last = Idle
    /\ products = {}
    /\ gen = [p \in Procs |-> GenIdle]
    /\ calls = [p \in Procs |-> RaceIdle]
    /\ \E rows \in SUBSET UserRows :
         /\ Cardinality(rows) <= MaxRecords
         /\ \A r1 \in rows, r2 \in rows :
              r1 # r2 => r1.id # r2.id /\ r1.email # r2.email
         /\ dbUser = rows
         /\ users = {r.id : r \in rows}
    /\ clerk = NoMetadata
    /\ modal = ModalClosed
    /\ productForm = NoProductForm
    /\ editForm = {}

\* One request, on any user table.
NextHook == Webhook

SpecHook == InitHook /\ [][NextHook]_vars

----------------------------------------------------------------------------
(* The modal provider (src/providers/modal-provider.tsx).  modal.data is   *)
(* the data object as a set of <<key, value>> pairs, modal.showingModal    *)
(* the node shown (none for null), modal.pending the calls of setOpen that *)
(* await their fetchData, each with the data its closure holds.            *)

\* { ...data, ...(fetchedData || {}) }
MergeData(data, fetched) ==
    {kv \in data : \A f \in fetched : f[1] # kv[1]} \cup fetched

ModalStep(did, call, fetched, setters) ==
    [did |-> did, call |-> call, fetched |-> fetched, setters |-> setters]

\* setOpen that shows the modal at once and fetches afterwards.
setOpenCallOpensFirst(m, node, hasFetch) ==
    IF node = 0
    THEN [m EXCEPT !.recent = "setOpen",
                   !.log = ModalStep("setOpen", 0, {}, <<>>)]
    ELSE [m EXCEPT !.opens = @ + 1,
                   !.recent = "setOpen",
                   !.pending = IF hasFetch
                               THEN @ \cup {[call |-> node, data |-> m.data]}
                               ELSE @,
                   !.showingModal = {node},
                   !.isOpen = TRUE,
                   !.log = ModalStep("setOpen", node, {},
                                     <<"setShowingModal", "setIsOpen">>)]

\* setOpen(modal, fetchData) up to its first await: nothing for a falsy
\* modal (node 0); with fetchData the call waits, holding the data of the
\* render it was made in; without, the modal is stored and opened.
setOpenCall(m, node, hasFetch) ==
    IF node = 0
    THEN [m EXCEPT !.recent = "setOpen",
                   !.log = ModalStep("setOpen", 0, {}, <<>>)]
    ELSE IF hasFetch
    THEN [m EXCEPT !.opens = @ + 1,
                   !.recent = "setOpen",
                   !.pending = @ \cup {[call |-> node, data |-> m.data]},
                   !.log = ModalStep("setOpen", node, {}, <<>>)]
    ELSE [m EXCEPT !.opens = @ + 1,
                   !.recent = "setOpen",
                   !.showingModal = {node},
                   !.isOpen = TRUE,
                   !.log = ModalStep("setOpen", node, {},
                                     <<"setShowingModal", "setIsOpen">>)]

\* setOpen after fetchData has resolved: setData with the closure's data
\* and what was fetched, setShowingModal, setIsOpen(true).
setOpenResume(m, c, fetched) ==
    [m EXCEPT !.pending = @ \ {c},
              !.data = MergeData(c.data, fetched),
              !.showingModal = {c.call},
              !.isOpen = TRUE,
              !.log = ModalStep("resolve", c.call, fetched,
                                <<"setData", "setShowingModal", "setIsOpen">>)]

\* fetchData has rejected: the async function ends there.
setOpenReject(m, c) ==
    [m EXCEPT !.pending = @ \ {c},
              !.log = ModalStep("reject", c.call, {}, <<>>)]

\* setClose: setIsOpen(false), setData({}).
setClose(m) ==
    [m EXCEPT !.isOpen = FALSE,
              !.data = {},
              !.recent = "setClose",
              !.log = ModalStep("setClose", 0, {}, <<"setIsOpen", "setData">>)]

\* What the fetchData of call n can resolve to: nothing, or an object with
\* one key.
Fetched(n) == {{}} \cup {{<<k, n>>} : k \in {"user", "rowData"}}

ModalFrame ==
    /\ UNCHANGED <<stores, categories, users, last>>
    /\ UNCHANGED others
    /\ UNCHANGED <<dbUser, clerk, productForm, editForm>>

\* A consumer invokes setOpen: with a falsy modal, or with the next modal,
\* with or without fetchData.
SetOpen ==
    /\ modal.opens < MaxOpens
    /\ \E node \in {0, modal.opens + 1}, hasFetch \in BOOLEAN :
         modal' = setOpenCall(modal, node, hasFetch)
    /\ ModalFrame

\* The fetchData of a waiting call resolves.
FetchResolves ==
    /\ \E c \in modal.pending :
         \E fetched \in Fetched(c.call) :
             modal' = setOpenResume(modal, c, fetched)
    /\ ModalFrame

\* The fetchData of a waiting call rejects.
FetchRejects ==
    /\ \E c \in modal.pending : modal' = setOpenReject(modal, c)
    /\ ModalFrame

\* A consumer invokes setClose (the dialog's onOpenChange, or a form when it
\* is done).
SetClose ==
    /\ modal' = setClose(modal)
    /\ ModalFrame

NextModal ==
    \/ SetOpen
    \/ FetchResolves
    \/ FetchRejects
    \/ SetClose

SpecModal == Init /\ [][NextModal]_vars

----------------------------------------------------------------------------
(* The images of the product form (components/dashboard/forms/             *)
(* product-details.tsx): productForm.images is the component's local       *)
(* images state, productForm.formImages the form's images field,           *)
(* productForm.data the images of the product the form was opened for.     *)

Urls == {"u1", "u2", "u3"}

RECURSIVE SeqsUpTo(_)
SeqsUpTo(n) ==
    IF n = 0 THEN {<<>>}
    ELSE SeqsUpTo(n - 1)
            \cup {Append(q, u) : q \in {x \in SeqsUpTo(n - 1) : Len(x) = n - 1},
                                 u \in Urls}

\* images.filter((img) => img.url !== url)
RECURSIVE Without(_, _)
Without(q, url) ==
    IF q = <<>> THEN <<>>
    ELSE IF Head(q) = url THEN Without(Tail(q), url)
    ELSE <<Head(q)>> \o Without(Tail(q), url)

FormFrame ==
    /\ UNCHANGED <<stores, categories, users, last>>
    /\ UNCHANGED others
    /\ UNCHANGED <<dbUser, clerk, modal, editForm>>

\* ProductDetails is mounted: useState([]) for the local images, and
\* data?.images || [] for the form field, data being the product in edit
\* mode and absent in create mode.
MountForm ==
    /\ productForm.mode = "none"
    /\ \E data \in SeqsUpTo(MaxImages) :
         productForm' =
            [mode |-> IF data = <<>> THEN "create" ELSE "edit", data |-> data,
             images |-> <<>>, formImages |-> data, did |-> "mount", url |-> ""]
    /\ FormFrame

\* onChange of ImageUpload: the uploaded url is appended to the local images
\* and the result is given to the form field.
UploadImage ==
    /\ productForm.mode # "none"
    /\ Len(productForm.images) < MaxImages
    /\ \E url \in Urls :
         LET updatedImages == Append(productForm.images, url)
         IN  productForm' = [productForm EXCEPT !.images = updatedImages,
                                               !.formImages = updatedImages,
                                               !.did = "upload", !.url = url]
    /\ FormFrame

\* onRemove of ImagesPreviewGrid for an image the grid shows: the url is
\* filtered out of the local images and the result is given to the form
\* field.
RemoveImage ==
    /\ productForm.mode # "none"
    /\ \E i \in 1..Len(productForm.formImages) :
         LET url == productForm.formImages[i]
             updatedImages == Without(productForm.images, url)
         IN  productForm' = [productForm EXCEPT !.images = updatedImages,
                                               !.formImages = updatedImages,
                                               !.did = "remove", !.url = url]
    /\ FormFrame

NextForm ==
    \/ MountForm
    \/ UploadImage
    \/ RemoveImage

SpecForm == Init /\ [][NextForm]_vars

----------------------------------------------------------------------------
(* Vocabulary of the properties.                                           *)

StoreUnique == <<"name", "email", "phone", "url">>

CategoryUnique == <<"name", "url">>

Range(seq) == {seq[i] : i \in 1..Len(seq)}

StoreMessage(f) ==
    CASE f = "name" -> ErrStoreName
      [] f = "email" -> ErrStoreEmail
      [] f = "phone" -> ErrStorePhone
      [] f = "url" -> ErrStoreUrl

CategoryMessage(f) ==
    CASE f = "name" -> ErrCategoryName
      [] f = "url" -> ErrCategoryUrl

\* The field of fields that comes first in order.
Highest(order, fields) ==
    order[CHOOSE i \in 1..Len(order) :
            /\ order[i] \in fields
            /\ \A j \in 1..(i - 1) : order[j] \notin fields]

NoDuplicates(table, order) ==
    \A r1 \in table, r2 \in table :
        r1 # r2 => /\ r1.id # r2.id
                   /\ \A f \in Range(order) : r1[f] # r2[f]

\* The fields on which row r has the value of payload p.
MatchOn(order, r, p) == {f \in Range(order) : r[f] = p[f]}

\* The fields on which payload p has the value of some row with another id.
Collide(order, table, p) ==
    {f \in Range(order) : \E r \in table : r.id # p.id /\ r[f] = p[f]}

IsUpsert(c, op, role) ==
    /\ c.op = op
    /\ c.user.role = role
    /\ c.arg.kind = "full"

TheRow(rows) == CHOOSE r \in rows : TRUE

\* C1: under serial execution no two distinct persisted stores share a name,
\* an email, a phone or a url, no two distinct persisted categories share a
\* name or a url, and no two rows of a table share an id.
C1_Uniqueness ==
    /\ NoDuplicates(stores, StoreUnique)
    /\ NoDuplicates(categories, CategoryUnique)

\* Two stores are persisted, the second by an upsert that succeeded.
C1_Witness ==
    /\ Cardinality(stores) = 2
    /\ last.op = "upsertStore"
    /\ ~last.threw

\* C2: an upsert by a caller with the required role, with the id of an
\* existing row and that row's own values in the unique fields, finds no
\* conflict, succeeds, and returns a row with the same unique-field values.
C2_SelfMatch ==
    /\ IsUpsert(last, "upsertStore", "SELLER")
         => \A r \in last.prior :
                MatchOn(StoreUnique, r, last.arg) = Range(StoreUnique)
                    => /\ last.found = {}
                       /\ ~last.threw
                       /\ \E x \in last.ret :
                            MatchOn(StoreUnique, x, r) = Range(StoreUnique)
    /\ IsUpsert(last, "upsertCategory", "ADMIN")
         => \A r \in last.prior :
                MatchOn(CategoryUnique, r, last.arg) = Range(CategoryUnique)
                    => /\ last.found = {}
                       /\ ~last.threw
                       /\ \E x \in last.ret :
                            MatchOn(CategoryUnique, x, r) = Range(CategoryUnique)

\* A store was upserted with its own unique-field values while another store
\* is persisted.
C2_Witness ==
    /\ IsUpsert(last, "upsertStore", "SELLER")
    /\ \E r \in last.prior :
            MatchOn(StoreUnique, r, last.arg) = Range(StoreUnique)
    /\ Cardinality(stores) = 2
    /\ ~last.threw

\* The upsert of row b, by role, changes exactly field f, to the value row a
\* has there.
TakesOver(c, order, table, f) ==
    \E b \in c.prior, a \in table :
        /\ a.id # b.id
        /\ a[f] # b[f]
        /\ c.arg[f] = a[f]
        /\ \A g \in Range(order) \ {f} : c.arg[g] = b[g]

\* C3: with two distinct persisted rows A and B, an upsert of B that sets
\* exactly one unique field to A's value and keeps B's values in the others
\* throws the conflict error that names that field.
C3_CrossRecordConflict ==
    /\ IsUpsert(last, "upsertStore", "SELLER")
         => \A f \in Range(StoreUnique) :
                TakesOver(last, StoreUnique, stores, f)
                    => last.threw /\ last.err = StoreMessage(f)
    /\ IsUpsert(last, "upsertCategory", "ADMIN")
         => \A f \in Range(CategoryUnique) :
                TakesOver(last, CategoryUnique, categories, f)
                    => last.threw /\ last.err = CategoryMessage(f)

\* A store was upserted with the phone of another store and nothing else
\* changed.
C3_Witness ==
    /\ IsUpsert(last, "upsertStore", "SELLER")
    /\ TakesOver(last, StoreUnique, stores, "phone")
    /\ last.threw

\* C4 as claimed: an upsert whose payload collides on more than one unique
\* field, with one row or with several, throws the conflict error that names
\* the first colliding field in the order name, email, phone, url.
C4_Original ==
    /\ (IsUpsert(last, "upsertStore", "SELLER")
        /\ Cardinality(Collide(StoreUnique, stores, last.arg)) > 1)
         => /\ last.threw
            /\ last.err = StoreMessage(
                 Highest(StoreUnique, Collide(StoreUnique, stores, last.arg)))
    /\ (IsUpsert(last, "upsertCategory", "ADMIN")
        /\ Cardinality(Collide(CategoryUnique, categories, last.arg)) > 1)
         => /\ last.threw
            /\ last.err = CategoryMessage(
                 Highest(CategoryUnique,
                         Collide(CategoryUnique, categories, last.arg)))

\* C4 as amended: the conflict error names the first field, in the order
\* name, email, phone, url, on which the row that findFirst returned has the
\* payload's value; when every collision of the payload is with that row,
\* this is the first colliding field.
C4_Priority ==
    /\ (IsUpsert(last, "upsertStore", "SELLER") /\ last.found # {})
         => /\ last.threw
            /\ last.err = StoreMessage(
                 Highest(StoreUnique,
                         MatchOn(StoreUnique, TheRow(last.found), last.arg)))
            /\ Collide(StoreUnique, stores, last.arg)
                 = MatchOn(StoreUnique, TheRow(last.found), last.arg)
                 => last.err = StoreMessage(
                      Highest(StoreUnique,
                              Collide(StoreUnique, stores, last.arg)))
    /\ (IsUpsert(last, "upsertCategory", "ADMIN") /\ last.found # {})
         => /\ last.threw
            /\ last.err = CategoryMessage(
                 Highest(CategoryUnique,
                         MatchOn(CategoryUnique, TheRow(last.found), last.arg)))
            /\ Collide(CategoryUnique, categories, last.arg)
                 = MatchOn(CategoryUnique, TheRow(last.found), last.arg)
                 => last.err = CategoryMessage(
                      Highest(CategoryUnique,
                              Collide(CategoryUnique, categories, last.arg)))

\* The payload of a store upsert collides with two rows, and with the row
\* that findFirst returned on more than one field.
C4_Witness ==
    /\ IsUpsert(last, "upsertStore", "SELLER")
    /\ last.found # {}
    /\ Cardinality(StoreWhere(stores, last.arg)) = 2
    /\ \E r \in last.found :
            Cardinality(MatchOn(StoreUnique, r, last.arg)) > 1

\* C5: when the uniqueness probe returns a row, the error thrown has a
\* message that is not empty and that names a field on which the returned
\* row has the payload's value.
C5_MessageNamesField ==
    /\ (last.op = "upsertStore" /\ last.found # {})
         => /\ last.threw
            /\ last.err # ""
            /\ \E f \in MatchOn(StoreUnique, TheRow(last.found), last.arg) :
                    last.err = StoreMessage(f)
    /\ (last.op = "upsertCategory" /\ last.found # {})
         => /\ last.threw
            /\ last.err # ""
            /\ \E f \in MatchOn(CategoryUnique, TheRow(last.found), last.arg) :
                    last.err = CategoryMessage(f)

\* The probe of a category upsert returned a row that has the payload's url
\* and not its name.
C5_Witness ==
    /\ last.op = "upsertCategory"
    /\ \E r \in last.found :
            MatchOn(CategoryUnique, r, last.arg) = {"url"}
    /\ last.threw

RequiredRole(op) == IF op = "upsertStore" THEN "SELLER" ELSE "ADMIN"

ErrRole(op) == IF op = "upsertStore" THEN ErrSellerOnly ELSE ErrAdminOnly

ErrNoData(op) == IF op = "upsertStore" THEN ErrNoStoreData ELSE ErrNoCategoryData

Upserts == {"upsertStore", "upsertCategory"}

Probe(op) == IF op = "upsertStore" THEN "store.findFirst" ELSE "category.findFirst"

Write(op) == IF op = "upsertStore" THEN "store.upsert" ELSE "category.upsert"

WrongRole(c) ==
    /\ c.op \in Upserts \cup {"deleteCategory"}
    /\ c.user # NoUser
    /\ c.user.role # RequiredRole(c.op)

\* C6: upsertStore by an authenticated caller who is no SELLER, and
\* upsertCategory or deleteCategory by an authenticated caller who is no
\* ADMIN, throw the authorization error, issue no database operation and
\* leave every table as it was.
C6_RoleGating ==
    [][WrongRole(last')
         => /\ last'.threw
            /\ last'.err = ErrRole(last'.op)
            /\ last'.log = <<>>
            /\ UNCHANGED <<stores, categories, users>>]_vars

\* A seller called deleteCategory while a category is persisted.
C6_Witness ==
    /\ last.op = "deleteCategory"
    /\ last.user = Seller
    /\ last.threw
    /\ categories # {}

\* C7: an upsert checks authentication, role and payload presence, then
\* probes, then writes; the error is the one of the first step that fails
\* (an unauthenticated caller gets the authentication error whatever the
\* payload), nothing is issued after a failing step, and the write is issued
\* at most once, after the probe, as the last database operation.
C7_StepOrder ==
    last.op \in Upserts =>
        /\ last.user = NoUser
             => last.threw /\ last.err = ErrUnauthenticated /\ last.log = <<>>
        /\ WrongRole(last)
             => last.threw /\ last.err = ErrRole(last.op) /\ last.log = <<>>
        /\ (last.user # NoUser /\ ~WrongRole(last) /\ last.arg.kind = "missing")
             => last.threw /\ last.err = ErrNoData(last.op) /\ last.log = <<>>
        /\ last.log \in {<<>>, <<Probe(last.op)>>, <<Probe(last.op), Write(last.op)>>}
        /\ last.found # {} => last.threw /\ last.log = <<Probe(last.op)>>
        /\ last.log = <<>>
             => /\ last.threw
                /\ last.err \in {ErrUnauthenticated, ErrRole(last.op),
                                 ErrNoData(last.op)}
        /\ ~last.threw => last.log = <<Probe(last.op), Write(last.op)>>

\* An unauthenticated caller called upsertStore without a payload.
C7_Witness ==
    /\ last.op = "upsertStore"
    /\ last.user = NoUser
    /\ last.arg.kind = "missing"
    /\ last.err = ErrUnauthenticated

\* C8 as claimed: an upsert by a caller with the required role whose payload
\* is missing or empty throws the validation error and issues no database
\* operation.
C8_NoQueryWithoutPayload ==
    (/\ last.op \in Upserts
     /\ last.user # NoUser
     /\ ~WrongRole(last)
     /\ last.arg.kind \in {"missing", "empty"})
        => /\ last.threw
           /\ last.err = ErrNoData(last.op)
           /\ last.log = <<>>

\* C9: a successful upsert with an id that no row has adds exactly one row
\* and leaves the others; one with the id of a row keeps the number of rows
\* and changes no other row; both return the row persisted under that id.
C9_CreateOrUpdate ==
    [][/\ (last'.op = "upsertStore" /\ ~last'.threw)
            => /\ IF HasId(stores, last'.arg.id)
                  THEN /\ Cardinality(stores') = Cardinality(stores)
                       /\ \A r \in stores : r.id # last'.arg.id => r \in stores'
                  ELSE /\ Cardinality(stores') = Cardinality(stores) + 1
                       /\ stores \subseteq stores'
               /\ Cardinality(last'.ret) = 1
               /\ last'.ret = {r \in stores' : r.id = last'.arg.id}
               /\ categories' = categories
       /\ (last'.op = "upsertCategory" /\ ~last'.threw)
            => /\ IF HasId(categories, last'.arg.id)
                  THEN /\ Cardinality(categories') = Cardinality(categories)
                       /\ \A r \in categories :
                            r.id # last'.arg.id => r \in categories'
                  ELSE /\ Cardinality(categories') = Cardinality(categories) + 1
                       /\ categories \subseteq categories'
               /\ Cardinality(last'.ret) = 1
               /\ last'.ret = {r \in categories' : r.id = last'.arg.id}
               /\ stores' = stores]_vars

\* A store was updated to new values while another row is persisted.
C9_Witness ==
    /\ last.op = "upsertStore"
    /\ ~last.threw
    /\ \E r \in last.prior : r \notin stores
    /\ Total(stores, categories) = 2

\* C10: an upsert that ends by throwing (unauthenticated, wrong role, missing
\* payload, conflict) leaves every table as it was before the call, and each
\* of these failures reaches the caller as a thrown error with its message.
C10_NoPartialWrite ==
    [][last'.op \in Upserts
         => /\ last'.threw => UNCHANGED <<stores, categories, users>>
            /\ (\/ last'.user = NoUser
                \/ WrongRole(last')
                \/ last'.arg.kind = "missing"
                \/ last'.found # {})
                 => last'.threw /\ last'.err # ""]_vars

\* An upsert of a category was rejected for a conflict while two rows are
\* persisted.
C10_Witness ==
    /\ last.op = "upsertCategory"
    /\ last.found # {}
    /\ last.threw
    /\ Total(stores, categories) = 2

\* C11: after a successful upsert of an existing row every field the client
\* controls has the payload's value and nothing of the row before: a store
\* payload without featured or status stores FALSE and PENDING, and a
\* category is replaced by the whole payload, createdAt and updatedAt
\* included.
C11_WholesaleReplacement ==
    /\ (last.op = "upsertStore" /\ ~last.threw /\ last.prior # {})
         => \E x \in stores :
              /\ x.id = last.arg.id
              /\ \A f \in {"name", "description", "email", "phone", "url",
                           "logo", "cover"} : x[f] = last.arg[f]
              /\ last.arg.featured = {} => x.featured = FALSE
              /\ \A v \in last.arg.featured : x.featured = v
              /\ last.arg.status = {} => x.status = "PENDING"
              /\ \A v \in last.arg.status : x.status = v
    /\ (last.op = "upsertCategory" /\ ~last.threw /\ last.prior # {})
         => \E x \in categories :
              \A f \in {"id", "name", "image", "url", "featured", "createdAt",
                        "updatedAt"} : x[f] = last.arg[f]

\* A store that was featured and ACTIVE was updated with a payload that has
\* neither field.
C11_Witness ==
    /\ last.op = "upsertStore"
    /\ ~last.threw
    /\ \E r \in last.prior : r.featured /\ r.status = "ACTIVE"
    /\ last.arg.featured = {}
    /\ last.arg.status = {}

\* C12 as claimed: a call of upsertStore by a user who does not own a store
\* leaves that store as it was.
C12_OnlyOwnerMutates ==
    [][\A r \in stores :
         (last'.op = "upsertStore" /\ last'.user.id # r.userId)
            => r \in stores']_vars

\* C13: a store that is created gets the caller as its owner, and no step
\* changes the owner of a store that exists.
C13_OneOwner ==
    [][/\ \A r \in stores : \A x \in stores' :
            x.id = r.id => x.userId = r.userId
       /\ (last'.op = "upsertStore" /\ ~last'.threw /\ last'.prior = {})
            => \A x \in last'.ret : x.userId = last'.user.id]_vars

\* A seller updated a store that another seller owns.
C13_Witness ==
    /\ last.op = "upsertStore"
    /\ ~last.threw
    /\ \E r \in last.prior : r.userId # last.user.id /\ r \notin stores

Slugs(rows) == {r.slug : r \in rows}

Returned(p) == gen[p].pc = "returned"

\* C14: when no row has the base slug, generateUniqueSlug returns exactly
\* the base slug, after a single probe.
C14_NoCollision ==
    (Returned(1) /\ gen[1].baseSlug \notin Slugs(products))
        => /\ SlugResult(gen[1]) = gen[1].baseSlug
           /\ gen[1].probes = <<gen[1].baseSlug>>

\* A slug was generated for a collection that has rows, none with the base
\* slug.
C14_Witness ==
    /\ Returned(1)
    /\ gen[1].baseSlug = "widget"
    /\ gen[1].baseSlug \notin Slugs(products)
    /\ "widget-1" \in Slugs(products)

\* C15 as claimed: the candidates probed are the base slug and then the base
\* slug followed by one separator and the suffix 1, 2, 3, ... in that order.
C15_SuffixSequence ==
    Returned(1)
        => /\ gen[1].probes[1] = gen[1].baseSlug
           /\ \A i \in 2..Len(gen[1].probes) :
                gen[1].probes[i]
                    = gen[1].baseSlug \o gen[1].separator \o ToString(i - 1)

\* C16: the slug returned is the slug of no row of the collection, and it is
\* the first candidate in probe order whose probe found no row.
C16_ResultIsFree ==
    Returned(1)
        => /\ SlugResult(gen[1]) \notin Slugs(products)
           /\ SlugResult(gen[1]) = gen[1].probes[Len(gen[1].probes)]
           /\ \A i \in 1..(Len(gen[1].probes) - 1) :
                gen[1].probes[i] \in Slugs(products)

\* A slug was returned after two candidates were found taken.
C16_Witness ==
    /\ Returned(1)
    /\ Len(gen[1].probes) = 3

\* C17: on a finite collection that is not modified, a call of
\* generateUniqueSlug returns; the probe that finds no row is its last.
C17_Terminates ==
    /\ (gen[1].pc = "loop") ~> Returned(1)
    /\ [][Returned(1) => UNCHANGED gen]_vars
    /\ [][(gen[1].pc = "loop" /\ gen[1].slug \notin Slugs(products))
            => Returned(1)']_vars

\* A call returned after it probed as many candidates as the collection has
\* rows, and one more.
C17_Witness ==
    /\ Returned(1)
    /\ Len(gen[1].probes) = MaxRows + 1

Table(op) == IF op = "upsertStore" THEN stores ELSE categories

Unique(op) == IF op = "upsertStore" THEN StoreUnique ELSE CategoryUnique

\* The probe of call c returned no row and the call went on to its write.
PassedProbe(c) == c.log = <<Probe(c.op), Write(c.op)>>

\* C18: nothing ties the write of an upsert to its probe.  A call whose
\* probe returned no conflicting row writes its record and succeeds whatever
\* other calls wrote after the probe, so two concurrent calls for different
\* ids with the same value in a unique field can both succeed.
C18_CheckThenWrite ==
    \A p \in Procs :
        (calls[p].pc = "done" /\ PassedProbe(calls[p]))
            => /\ ~calls[p].threw
               /\ calls[p].found = {}
               /\ \E r \in Table(calls[p].op) :
                    /\ r.id = calls[p].arg.id
                    /\ MatchOn(Unique(calls[p].op), r, calls[p].arg)
                           = Range(Unique(calls[p].op))

\* Two calls of the same operation for different ids succeeded, and the
\* table holds their two records with one value in a unique field.
C18_Witness ==
    /\ \A p \in Procs : calls[p].pc = "done" /\ ~calls[p].threw
    /\ calls[1].op = calls[2].op
    /\ calls[1].arg.id # calls[2].arg.id
    /\ Cardinality(Table(calls[1].op)) = 2
    /\ ~NoDuplicates(Table(calls[1].op), Unique(calls[1].op))

\* C19: a call of generateUniqueSlug leaves no trace of the slug it returns.
\* Two calls for one base slug and one separator that have both returned
\* before either caller has written hold the same slug, and each caller's
\* write then stores the slug it was given: two rows with one slug.
C19_SlugRace ==
    /\ (/\ Returned(1)
        /\ Returned(2)
        /\ gen[1].baseSlug = gen[2].baseSlug
        /\ gen[1].separator = gen[2].separator)
           => SlugResult(gen[1]) = SlugResult(gen[2])
    /\ \A p \in Procs :
         gen[p].pc = "saved"
             => [id |-> NewId(p), slug |-> SlugResult(gen[p])] \in products

\* Both calls returned one slug after a collision each, both callers wrote,
\* and the collection holds two rows with that slug.
C19_Witness ==
    /\ \A p \in Procs : gen[p].pc = "saved" /\ Len(gen[p].probes) > 1
    /\ SlugResult(gen[1]) = SlugResult(gen[2])
    /\ \E r1 \in products, r2 \in products :
         /\ r1.id # r2.id
         /\ r1.slug = SlugResult(gen[1])
         /\ r2.slug = SlugResult(gen[1])

\* A call of deleteCategory is made in this step.
Deletes == last = Idle /\ last'.op = "deleteCategory"

\* C20: deleteCategory succeeds only for an ADMIN caller with a non-empty
\* category id; it then removes exactly the row with that id and returns it,
\* and every other category and every store is as before.  A call without a
\* caller, by another role or with an empty id throws and changes nothing.
\* After a delete getCategory of the id gives no row, and the probe of an
\* upsert with the deleted row's name and url finds no row.
C20_DeleteCategory ==
    [][Deletes =>
        /\ stores' = stores
        /\ (last'.user = NoUser \/ last'.user.role # "ADMIN"
                \/ last'.arg.kind = "missing") => last'.threw
        /\ last'.threw => categories' = categories /\ last'.ret = {}
        /\ ~last'.threw =>
             \E categoryId \in Ids :
                 /\ last'.arg.id = categoryId
                 /\ last'.ret = FindUnique(categories, categoryId)
                 /\ Cardinality(last'.ret) = 1
                 /\ categories' = categories \ last'.ret
                 /\ getCategory(categoryId)'
                        = [threw |-> FALSE, err |-> "", ret |-> {}]
                 /\ \A i \in Ids :
                      CategoryWhere(categories',
                                    [TheRow(last'.ret) EXCEPT !.id = i]) = {}
      ]_vars

\* An admin deleted one of two categories; the other is still there.
C20_Witness ==
    /\ last.op = "deleteCategory"
    /\ ~last.threw
    /\ last.user = Admin
    /\ Cardinality(last.ret) = 1
    /\ Cardinality(categories) = 1
    /\ categories \cap last.ret = {}

\* The open edit form is submitted in this step, and the category it was
\* opened for is gone.
StaleSubmit ==
    /\ last = Idle
    /\ last'.op = "upsertCategory"
    /\ \E f \in editForm : ~f.isSubmitting
    /\ \E f \in editForm' : f.isSubmitting
    /\ ~HasId(categories, TheRow(editForm).data.id)

IsPost == last = Idle /\ last'.op = "POST"

\* The request is verified and carries a user.created or user.updated event.
SyncEvent(c) ==
    c.verified /\ c.evt.type \in {"user.created", "user.updated"}

EventName(evt) == FullName(evt.first_name, evt.last_name, evt.username)

\* C22 as claimed: a verified user.created or user.updated event with an
\* email is answered 200 and leaves exactly one row with the event's user id,
\* carrying the event's name and picture; no row of another user id is
\* modified.
C22_UpsertByUserId ==
    [][(IsPost /\ SyncEvent(last') /\ last'.evt.email \notin {{}, {""}})
          => /\ last'.status = 200
             /\ Cardinality({r \in dbUser' : r.id = last'.evt.id}) = 1
             /\ \A r \in dbUser' :
                  r.id = last'.evt.id
                      => /\ r.name = EventName(last'.evt)
                         /\ r.picture = last'.evt.image_url
             /\ \A r \in dbUser : r.id # last'.evt.id => r \in dbUser'
      ]_vars

\* C23 as claimed: a row the webhook creates has role USER, the role of an
\* existing row is never changed, and the role written to the private
\* metadata of a user id is the role of the row with that user id.
C23_RoleOfSameUser ==
    [][(IsPost /\ SyncEvent(last'))
          => /\ \A r \in dbUser' : ~HasId(dbUser, r.id) => r.role = "USER"
             /\ \A r \in dbUser, r2 \in dbUser' :
                  r2.id = r.id => r2.role = r.role
             /\ \A i \in Ids :
                  clerk'[i] # clerk[i]
                      => \E r \in dbUser' : r.id = i /\ clerk'[i] = {r.role}
      ]_vars

\* C24: a verified user.created or user.updated event without an email
\* address, and a request that is not verified, are answered 400; no query
\* is issued and neither the user table nor the private metadata changes.
C24_Rejected ==
    [][(IsPost /\ \/ ~last'.verified
                  \/ SyncEvent(last') /\ last'.evt.email \in {{}, {""}})
          => /\ last'.status = 400
             /\ last'.log = <<>>
             /\ dbUser' = dbUser
             /\ clerk' = clerk
      ]_vars

\* A user.updated event whose first email address is the empty string was
\* answered 400 on a table that has rows.
C24_Witness ==
    /\ last.op = "POST"
    /\ last.verified
    /\ last.evt.type = "user.updated"
    /\ last.evt.email = {""}
    /\ last.status = 400
    /\ dbUser # {}
    /\ clerk = NoMetadata

\* C25: when the upsert has succeeded and the metadata update fails, the
\* answer is 200, the row written stays and the metadata is as before; a
\* user.deleted event whose delete fails is answered 500.
C25_MetadataFailureTolerated ==
    [][(IsPost /\ last'.verified)
          => /\ (/\ last'.evt.type \in {"user.created", "user.updated"}
                 /\ last'.clerkFails
                 /\ Len(last'.log) = 2)
                    => /\ last'.status = 200
                       /\ clerk' = clerk
                       /\ \E r \in dbUser' :
                            /\ {r.email} = last'.evt.email
                            /\ r.name = EventName(last'.evt)
                            /\ r.picture = last'.evt.image_url
             /\ (last'.evt.type = "user.deleted" /\ ~HasId(dbUser, last'.evt.id))
                    => /\ last'.status = 500
                       /\ dbUser' = dbUser
      ]_vars

\* A user was created by an event whose metadata update failed; the answer
\* was 200 and the row is there.
C25_Witness ==
    /\ last.op = "POST"
    /\ last.evt.type = "user.created"
    /\ last.clerkFails
    /\ last.status = 200
    /\ \E r \in dbUser :
         /\ r.id = last.evt.id
         /\ r.name = EventName(last.evt)
         /\ r.role = "USER"
    /\ clerk = NoMetadata

\* The provider takes a step of this kind.
ModalDoes(did) == modal' # modal /\ modal'.log.did = did

\* C26 as claimed: setClose leaves isOpen false and data empty, and when a
\* setOpen that was waiting for its fetchData opens its modal after a
\* setClose, data holds what that fetchData returned and nothing else.
C26_CleanAfterClose ==
    [][/\ ModalDoes("setClose") => ~modal'.isOpen /\ modal'.data = {}
       /\ (ModalDoes("resolve") /\ modal.recent = "setClose")
             => modal'.data = modal'.log.fetched
      ]_vars

\* C27: a call of setOpen with fetchData stores the data first, then the
\* modal, then opens, all after the fetch: the modal of a call that still
\* waits is never the one shown.  A falsy modal changes nothing, and a
\* rejected fetch leaves isOpen, data and the modal shown as they were.
C27_OpenFlow ==
    /\ [](\A c \in modal.pending : modal.showingModal # {c.call})
    /\ [][/\ ModalDoes("resolve")
               => /\ modal'.log.setters
                        = <<"setData", "setShowingModal", "setIsOpen">>
                  /\ modal'.log.fetched \subseteq modal'.data
                  /\ modal'.showingModal = {modal'.log.call}
                  /\ modal'.isOpen
                  /\ \E c \in modal.pending : c.call = modal'.log.call
          /\ (ModalDoes("setOpen") /\ modal'.log.call = 0)
               => /\ modal'.isOpen = modal.isOpen
                  /\ modal'.data = modal.data
                  /\ modal'.showingModal = modal.showingModal
                  /\ modal'.pending = modal.pending
          /\ ModalDoes("reject")
               => /\ modal'.isOpen = modal.isOpen
                  /\ modal'.data = modal.data
                  /\ modal'.showingModal = modal.showingModal
         ]_vars

\* A modal was opened with the data its fetch returned while another call
\* still waits.
C27_Witness ==
    /\ modal.log.did = "resolve"
    /\ modal.isOpen
    /\ modal.log.fetched # {}
    /\ modal.data = modal.log.fetched
    /\ modal.showingModal = {modal.log.call}
    /\ modal.pending # {}

\* C28 as claimed: isOpen is true only if the most recent invocation of
\* setOpen or setClose is a setOpen.
C28_CloseWins == modal.isOpen => modal.recent = "setOpen"

\* The product form takes a step of this kind.
FormDoes(did) == productForm' # productForm /\ productForm'.did = did

\* C29 as claimed: an upload appends its url to the images the form has,
\* removing none, and after every upload or removal the local images and the
\* form's images field are the same list, in create mode and in edit mode.
C29_ImagesInStep ==
    [][/\ FormDoes("upload")
            => productForm'.formImages
                   = Append(productForm.formImages, productForm'.url)
       /\ (FormDoes("upload") \/ FormDoes("remove"))
            => productForm'.images = productForm'.formImages
      ]_vars

====
